---- MODULE Spec2Model ----
(***************************************************************************)
(* The Columns block editor of packages/block-library/src/columns/         *)
(* edit.native.js.  The file holds two definitions of the component; the   *)
(* variable `variant` says which one is mounted: 1 is the definition of    *)
(* lines 1-258, 2 is the definition of lines 259-503.                      *)
(*                                                                         *)
(* The block-editor store is the variables innerBlocks, attributes and     *)
(* listSettings.  The component reads the store when it renders and keeps  *)
(* what it read in `props` until the next render, so a handler can run     *)
(* with props that are older than the store.                               *)
(***************************************************************************)
EXTENDS Integers, Sequences, FiniteSets, TLC

DEFAULT_COLUMNS == 2
MIN_COLUMNS_NUMBER == 2
MAX_COLUMNS_NUMBER == 6
MOBILE_WIDTH == 480
TABLET_WIDTH == 768

\* JavaScript's undefined, for the numeric fields.
undefined == -1

\* Bounds of the model.
MaxInit == 7
MaxBlocks == 7
MaxArg == 7

Variants == {1, 2}
Widths == {MOBILE_WIDTH - 1, MOBILE_WIDTH, TABLET_WIDTH - 1, TABLET_WIDTH}
Alignments == {"top", "center", "bottom", "undefined"}
InitAlignments == {<<"undefined", "undefined">>, <<"top", "bottom">>}

VARIABLES variant, innerBlocks, attributes, listSettings, props,
          effectPending, mountCount, call

vars == <<variant, innerBlocks, attributes, listSettings, props,
          effectPending, mountCount, call>>

Min(a, b) == IF a < b THEN a ELSE b
Max(a, b) == IF a > b THEN a ELSE b

Ids(blocks) == {blocks[i].clientId : i \in 1..Len(blocks)}

\* createBlock( 'core/column' ): a block with a client id of its own and
\* default attributes.
createBlock(id) ==
    [clientId |-> id, name |-> "core/column", verticalAlignment |-> "undefined"]

\* The least client id that no block of `used` has.  createBlock draws a
\* uuid; any other unused id is a renaming of this one.
FreshId(used) ==
    CHOOSE i \in 1..(Cardinality(used) + 1) :
        i \notin used /\ \A j \in 1..(i - 1) : j \in used

\* lodash times( n, () => createBlock( 'core/column' ) ): n new blocks, none
\* for n < 1.
RECURSIVE times(_, _)
times(n, used) ==
    IF n < 1 THEN <<>>
    ELSE LET id == FreshId(used)
         IN <<createBlock(id)>> \o times(n - 1, used \cup {id})

\* dropRight taken for drop: the blocks leave from the front.
dropRight_fromLeft(array, n) ==
    LET start == IF n < 0 THEN 0 ELSE Min(n, Len(array))
    IN SubSeq(array, start + 1, Len(array))

\* lodash dropRight( array, n ): slice( 0, length - n ), the end clamped to
\* 0..length.
dropRight(array, n) ==
    LET end == Len(array) - n
    IN SubSeq(array, 1, IF end < 0 THEN 0 ELSE Min(end, Len(array)))

\* The new blocks put in front of the existing ones.
addOrDrop_prepend(blocks, previousColumns, newColumns) ==
    IF newColumns > previousColumns
    THEN times(newColumns - previousColumns, Ids(blocks)) \o blocks
    ELSE dropRight(blocks, previousColumns - newColumns)

\* The add / drop step of updateColumns.
addOrDrop(blocks, previousColumns, newColumns) ==
    IF newColumns > previousColumns
    THEN blocks \o times(newColumns - previousColumns, Ids(blocks))
    ELSE dropRight(blocks, previousColumns - newColumns)

\* The padding left out.
needsPadding_never(v, step) == FALSE

\* Variant 1 only: the list is short of MIN_COLUMNS_NUMBER after the step.
needsPadding(v, step) == v = 1 /\ Len(step) < MIN_COLUMNS_NUMBER

\* The padding of variant 1.
padToMin(blocks, step) ==
    step \o times(MIN_COLUMNS_NUMBER - Len(step), Ids(blocks) \cup Ids(step))

\* The list updateColumns passes to replaceInnerBlocks.
newInnerBlocks(v, blocks, previousColumns, newColumns) ==
    LET step == addOrDrop(blocks, previousColumns, newColumns)
    IN IF needsPadding(v, step) THEN padToMin(blocks, step) ELSE step

\* The effect without the cap of MAX_COLUMNS_NUMBER.
effectColumns_noMax(columnCount) ==
    IF columnCount = 0 THEN DEFAULT_COLUMNS ELSE columnCount

\* The second argument the effect gives updateColumns.
effectColumns(columnCount) ==
    Min(MAX_COLUMNS_NUMBER,
        IF columnCount = 0 THEN DEFAULT_COLUMNS ELSE columnCount)

getColumnsInRow(columnCount, containerWidth, columnsNumber) ==
    IF containerWidth < MOBILE_WIDTH THEN 1
    ELSE IF containerWidth >= MOBILE_WIDTH /\ containerWidth < TABLET_WIDTH
         THEN Min(columnCount, 2)
         ELSE columnsNumber

\* The settings object onLayout passes to updateBlockSettings.
layoutSettings(v, blockListSettings, columnCount, newWidth) ==
    IF v = 1
    THEN [blockListSettings EXCEPT
            !.columnsInRow = getColumnsInRow(columnCount, newWidth, columnCount),
            !.width = newWidth]
    ELSE [blockListSettings EXCEPT !.width = newWidth]

\* onLayout without its test.
widthChanged_always(newWidth, width) == TRUE

\* onLayout's test.
widthChanged(newWidth, width) == newWidth # width

\* Only the children without an alignment of their own are updated.
alignChildren_unsetOnly(blocks, verticalAlignment) ==
    [i \in 1..Len(blocks) |->
        IF blocks[i].verticalAlignment = "undefined"
        THEN [blocks[i] EXCEPT !.verticalAlignment = verticalAlignment]
        ELSE blocks[i]]

\* The children after updateAlignment's forEach over getBlockOrder.
alignChildren(blocks, verticalAlignment) ==
    [i \in 1..Len(blocks) |->
        [blocks[i] EXCEPT !.verticalAlignment = verticalAlignment]]

\* What useSelect hands the component at a render.
selectProps ==
    [columnCount |-> Len(innerBlocks), blockListSettings |-> listSettings]

\* getBlockListSettings( clientId ) || {}: no key is set.
NoSettings ==
    [width |-> undefined, columnsInRow |-> undefined,
     allowedBlocks |-> undefined]

\* The record of a handler's run: its arguments, the store and the props it
\* found, and what it dispatched.
NoCall ==
    [op |-> "none", previousColumns |-> undefined, newColumns |-> undefined,
     verticalAlignment |-> "undefined", newWidth |-> undefined,
     before |-> <<>>, passed |-> <<>>, selectBlock |-> FALSE,
     dispatched |-> FALSE,
     props |-> [columnCount |-> 0, blockListSettings |-> NoSettings],
     settingsBefore |-> NoSettings]

\* The mounted container: the store as the host framework hands it over and
\* the first render's props, the effect of the mount still to run.
Mounted(n, pat, ab, v) ==
        /\ variant = v
        /\ innerBlocks =
             [i \in 1..n |->
                [clientId |-> i, name |-> "core/column",
                 verticalAlignment |-> IF i % 2 = 1 THEN pat[1] ELSE pat[2]]]
        /\ attributes = [verticalAlignment |-> pat[1]]
        /\ listSettings = [NoSettings EXCEPT !.allowedBlocks = ab]
        /\ props = selectProps
        /\ effectPending = TRUE
        /\ call = NoCall

\* mountCount is the inner block count at the mount; only SpecReconcile
\* records it.
Init ==
    \E n \in 0..MaxInit, pat \in InitAlignments, ab \in {undefined, 1},
       v \in Variants :
        Mounted(n, pat, ab, v) /\ mountCount = undefined

InitReconcile ==
    \E n \in 0..MaxInit, pat \in InitAlignments, ab \in {undefined, 1},
       v \in Variants :
        Mounted(n, pat, ab, v) /\ mountCount = n

\* updateColumns( previousColumns, newColumns ), called by `op`.
updateColumns(op, previousColumns, newColumns) ==
    LET step == addOrDrop(innerBlocks, previousColumns, newColumns)
        blocks == newInnerBlocks(variant, innerBlocks, previousColumns,
                                 newColumns)
    IN /\ Len(blocks) <= MaxBlocks
       /\ innerBlocks' = blocks
       /\ call' = [NoCall EXCEPT
                     !.op = op,
                     !.previousColumns = previousColumns,
                     !.newColumns = newColumns,
                     !.before = innerBlocks,
                     !.passed = blocks,
                     !.selectBlock = needsPadding(variant, step),
                     !.props = props]
       /\ UNCHANGED <<variant, attributes, listSettings, props, mountCount>>

\* The useEffect of the container: after the mount, and in variant 1 after
\* every render that changed columnCount.
RunEffect ==
    /\ effectPending
    /\ updateColumns("effect", props.columnCount,
                     effectColumns(props.columnCount))
    /\ effectPending' = FALSE

\* StepperControl's onChangeValue.  React runs the pending effect of a
\* render before it handles a later press.
Stepper(value) ==
    /\ ~effectPending
    /\ updateColumns("stepper", props.columnCount, value)
    /\ UNCHANGED effectPending

\* BlockVerticalAlignmentToolbar's onChange.
updateAlignment(verticalAlignment) ==
    /\ ~effectPending
    /\ attributes' = [attributes EXCEPT !.verticalAlignment = verticalAlignment]
    /\ innerBlocks' = alignChildren(innerBlocks, verticalAlignment)
    /\ call' = [NoCall EXCEPT
                  !.op = "updateAlignment",
                  !.verticalAlignment = verticalAlignment,
                  !.before = innerBlocks,
                  !.props = props]
    /\ UNCHANGED <<variant, listSettings, props, effectPending, mountCount>>

\* The View's onLayout.  The native layout event is not ordered with the
\* effect of the mount.
onLayout(newWidth) ==
    LET changed == widthChanged(newWidth, props.blockListSettings.width)
    IN /\ listSettings' =
            IF changed
            THEN layoutSettings(variant, props.blockListSettings,
                                props.columnCount, newWidth)
            ELSE listSettings
       /\ call' = [NoCall EXCEPT
                     !.op = "onLayout",
                     !.newWidth = newWidth,
                     !.before = innerBlocks,
                     !.dispatched = changed,
                     !.props = props,
                     !.settingsBefore = listSettings]
       /\ UNCHANGED <<variant, innerBlocks, attributes, props, effectPending,
                      mountCount>>

\* A render of the component after the store changed.  A pending effect of
\* the previous render runs first.  `call` is what the last handler since
\* the last render dispatched.
Render ==
    /\ ~effectPending
    /\ props # selectProps
    /\ props' = selectProps
    /\ effectPending' = (variant = 1 /\ Len(innerBlocks) # props.columnCount)
    /\ call' = NoCall
    /\ UNCHANGED <<variant, innerBlocks, attributes, listSettings, mountCount>>

\* updateColumns called on the mounted store with arguments of the caller's
\* choice.
callUpdateColumns(previousColumns, newColumns) ==
    /\ call.op = "none"
    /\ effectPending
    /\ updateColumns("call", previousColumns, newColumns)
    /\ UNCHANGED effectPending

StepperAction ==
    \E value \in MIN_COLUMNS_NUMBER..MAX_COLUMNS_NUMBER : Stepper(value)

AlignmentAction ==
    \E verticalAlignment \in Alignments : updateAlignment(verticalAlignment)

LayoutAction == \E newWidth \in Widths : onLayout(newWidth)

CallAction ==
    \E previousColumns \in 0..MaxArg, newColumns \in 0..MaxArg :
        callUpdateColumns(previousColumns, newColumns)

Next == RunEffect \/ Render \/ StepperAction \/ AlignmentAction \/ LayoutAction

Spec == Init /\ [][Next]_vars

\* The column count alone: onLayout and updateAlignment leave the number and
\* the order of the inner blocks and columnCount as they are.
NextColumns == RunEffect \/ Render \/ StepperAction

SpecColumns == Init /\ [][NextColumns]_vars

\* The column count and the alignment: onLayout reads and writes neither.
NextAlignment == RunEffect \/ Render \/ StepperAction \/ AlignmentAction

SpecAlignment == Init /\ [][NextAlignment]_vars

\* The layout: a press on the stepper reads and writes no block list
\* setting, and the count it changes reaches onLayout through Render as the
\* effect's does.
NextLayout == RunEffect \/ Render \/ LayoutAction

SpecLayout == Init /\ [][NextLayout]_vars

\* updateColumns as a function of its arguments and the store, and the
\* program's own calls after it.
NextCall == CallAction \/ NextColumns

SpecCall == Init /\ [][NextCall]_vars

\* The mounted container left alone: React runs a pending effect, and the
\* store's subscription renders the component after a change.
NextReconcile == RunEffect \/ Render

SpecReconcile ==
    InitReconcile /\ [][NextReconcile]_vars /\ WF_vars(RunEffect) /\ WF_vars(Render)

(***************************************************************************)
(* Properties.                                                             *)
(***************************************************************************)
IsUpdateColumns == call.op \in {"effect", "stepper", "call"}

\* A block that createBlock( 'core/column' ) made during the call.
NewColumn(block) ==
    /\ block.name = "core/column"
    /\ block.verticalAlignment = "undefined"
    /\ block.clientId \notin Ids(call.before)

\* C1: updateColumns( previousColumns, newColumns ) with newColumns >
\* previousColumns, previousColumns the number of inner blocks and at least
\* 2, passes replaceInnerBlocks exactly newColumns blocks: the existing ones
\* in their order, then newColumns - previousColumns new 'core/column'
\* blocks.
AddingColumnsAppends ==
    ( /\ IsUpdateColumns
      /\ call.newColumns > call.previousColumns
      /\ call.previousColumns = Len(call.before)
      /\ call.previousColumns >= 2 )
    => /\ Len(call.passed) = call.newColumns
       /\ innerBlocks = call.passed
       /\ SubSeq(call.passed, 1, Len(call.before)) = call.before
       /\ \A i \in (Len(call.before) + 1)..Len(call.passed) :
            NewColumn(call.passed[i])
       /\ Cardinality(Ids(call.passed)) = call.newColumns

AddingColumnsWitness ==
    /\ variant = 2
    /\ call.op = "stepper"
    /\ call.newColumns > call.previousColumns + 1
    /\ call.previousColumns = Len(call.before)
    /\ call.previousColumns >= 2

\* C2: updateColumns( previousColumns, newColumns ) with newColumns <
\* previousColumns removes the last inner blocks only: of the n existing
\* blocks exactly the first max( 0, n - ( previousColumns - newColumns ) )
\* are in the list passed to replaceInnerBlocks, in their order.
RemovingColumnsDropsLast ==
    ( IsUpdateColumns /\ call.newColumns < call.previousColumns )
    => LET n == Len(call.before)
           k == Max(0, n - (call.previousColumns - call.newColumns))
       IN /\ Len(call.passed) >= k
          /\ SubSeq(call.passed, 1, k) = SubSeq(call.before, 1, k)
          /\ \A i \in (k + 1)..Len(call.passed) :
               call.passed[i].clientId \notin Ids(call.before)

RemovingColumnsWitness ==
    /\ variant = 1
    /\ call.op = "stepper"
    /\ call.newColumns < call.previousColumns
    /\ Len(call.before) # call.previousColumns
    /\ Len(call.before) > call.previousColumns - call.newColumns
    /\ Len(call.passed) = Len(call.before)
                            - (call.previousColumns - call.newColumns)

\* C3: after updateAlignment( verticalAlignment ) the Columns block's own
\* verticalAlignment and that of every child getBlockOrder returned at the
\* call equal the argument, whatever each child had before.
AlignmentOverridesChildren ==
    call.op = "updateAlignment"
    => /\ attributes.verticalAlignment = call.verticalAlignment
       /\ Len(innerBlocks) = Len(call.before)
       /\ \A i \in 1..Len(call.before) :
            /\ innerBlocks[i].clientId = call.before[i].clientId
            /\ innerBlocks[i].verticalAlignment = call.verticalAlignment

AlignmentWitness ==
    /\ call.op = "updateAlignment"
    /\ \E i, j \in 1..Len(call.before) :
         /\ call.before[i].verticalAlignment # call.before[j].verticalAlignment
         /\ call.before[i].verticalAlignment # call.verticalAlignment
         /\ call.before[j].verticalAlignment # call.verticalAlignment
         /\ call.before[i].verticalAlignment # "undefined"
         /\ call.before[j].verticalAlignment # "undefined"

\* The effect has run, and the props are the store's.
Settled == ~effectPending /\ props = selectProps

\* C4: in variant 1 the container mounted with c inner blocks and left alone
\* settles after finitely many runs of the effect, with
\* min( 6, max( 2, c ) ) inner blocks.
ReconcileSettles ==
    (variant = 1)
    => <>[](Settled /\ Len(innerBlocks) = Min(6, Max(2, mountCount)))

ReconcileWitness ==
    /\ variant = 1
    /\ mountCount = 0
    /\ Settled
    /\ call.op = "effect"
    /\ call.previousColumns = DEFAULT_COLUMNS
    /\ Len(call.before) = DEFAULT_COLUMNS
    /\ Len(innerBlocks) = DEFAULT_COLUMNS

\* C5: in variant 1 the list updateColumns passes to replaceInnerBlocks has
\* at least MIN_COLUMNS_NUMBER blocks, whatever the arguments and the inner
\* blocks, and selectBlock is dispatched exactly when the list after the add
\* / drop step had fewer than 2 blocks and was padded.
MinimumColumns ==
    ( variant = 1 /\ IsUpdateColumns )
    => LET n == Len(call.before)
           stepLen == IF call.newColumns > call.previousColumns
                      THEN n + (call.newColumns - call.previousColumns)
                      ELSE Max(0, n - (call.previousColumns - call.newColumns))
       IN /\ Len(call.passed) >= MIN_COLUMNS_NUMBER
          /\ call.selectBlock <=> (stepLen < 2 /\ Len(call.passed) > stepLen)
          /\ call.selectBlock => Len(call.passed) = MIN_COLUMNS_NUMBER

MinimumColumnsWitness ==
    /\ variant = 1
    /\ call.op = "call"
    /\ call.selectBlock
    /\ Len(call.before) >= 2
    /\ Len(call.passed) = MIN_COLUMNS_NUMBER
    /\ call.passed[1] = call.before[1]

\* C6: after every call updateColumns( columnCount, value ) of the stepper,
\* 2 <= value <= 6, the number of inner blocks is value, also when
\* columnCount is older than the store.
StepperSetsColumnCount ==
    ( variant = 1 /\ call.op = "stepper" )
    => Len(innerBlocks) = call.newColumns

\* C7: onLayout dispatches updateBlockSettings exactly when newWidth differs
\* from blockListSettings.width; after a dispatch the stored width is
\* newWidth and the other keys of blockListSettings, columnsInRow aside, keep
\* their values; without a dispatch the block list settings and the inner
\* blocks are as before.
LayoutUpdatesOnWidthChange ==
    call.op = "onLayout"
    => /\ call.dispatched
            <=> (call.newWidth # call.props.blockListSettings.width)
       /\ call.dispatched
            => /\ listSettings.width = call.newWidth
               /\ listSettings.allowedBlocks
                    = call.props.blockListSettings.allowedBlocks
       /\ ~call.dispatched
            => listSettings = call.settingsBefore
       /\ innerBlocks = call.before

LayoutWitness ==
    /\ call.op = "onLayout"
    /\ call.dispatched
    /\ call.props.blockListSettings.width # undefined
    /\ call.props.blockListSettings.allowedBlocks # undefined
    /\ listSettings.width = call.newWidth

\* C8: getColumnsInRow( containerWidth, columnCount ) is 1 below 480,
\* min( columnCount, 2 ) from 480 and below 768, columnCount from 768, and
\* for every columnCount >= 0 at least 1 and at most max( 1, columnCount ).
ColumnsInRowInRange ==
    ( variant = 1 /\ call.op = "onLayout" /\ call.dispatched )
    => LET c == call.props.columnCount
           w == call.newWidth
           r == listSettings.columnsInRow
       IN /\ w < 480 => r = 1
          /\ (w >= 480 /\ w < 768) => r = Min(c, 2)
          /\ w >= 768 => r = c
          /\ r >= 1
          /\ r <= Max(1, c)
====
